---- MODULE Spec2Model ----
(***************************************************************************)
(* Model of lsp::dspu::SpectralTilt (src/main/filters/SpectralTilt.cpp):   *)
(* the configuration fields, update_settings() and the three streaming     *)
(* entry points process_add / process_mul / process_overwrite, together    *)
(* with the filter bank (sFilter) they drive.                              *)
(*                                                                         *)
(* Number representation                                                   *)
(*   - frequencies are integers counting tenths of a hertz, so that        *)
(*     DFL_LOWER_FREQUENCY (0.1 Hz) is 1 and 0.5f * nSampleRate is         *)
(*     5 * nSampleRate;                                                    *)
(*   - a float slope is a record [sub, n]: with sub = FALSE it is n / 10,  *)
(*     with sub = TRUE it is n times the smallest positive float (a        *)
(*     subnormal), where a product is rounded to the nearest representable *)
(*     value and may underflow to zero;                                    *)
(*   - size_t is modelled with 30 bits (TLC integers have 32): only the    *)
(*     parity of the largest value and its wrap to 0 matter.               *)
(***************************************************************************)
EXTENDS Integers, Sequences, FiniteSets

VARIABLES
    nOrder,             \* size_t: requested order, effective order after update_settings
    enSlopeUnit,        \* stlt_slope_unit_t
    enNorm,             \* stlt_norm_t
    fSlopeVal,          \* float: slope in the unit enSlopeUnit
    fSlopeNepNep,       \* float: slope in Neper-per-Neper
    fLowerFrequency,    \* float, tenths of Hz
    fUpperFrequency,    \* float, tenths of Hz
    nSampleRate,        \* Hz
    bBypass,
    bSync,
    sFilter,            \* the filter bank: capacity, sections, transaction, delay memory
    dst,                \* the caller's destination buffer after the last streaming call
    stream,             \* history: the samples given to / produced by the chain since the last rebuild
    last                \* history: the last operation, its arguments and the state before it

vars == <<nOrder, enSlopeUnit, enNorm, fSlopeVal, fSlopeNepNep, fLowerFrequency,
          fUpperFrequency, nSampleRate, bBypass, bSync, sFilter, dst, stream, last>>

cfgvars == <<nOrder, enSlopeUnit, enNorm, fSlopeVal, fSlopeNepNep, fLowerFrequency,
             fUpperFrequency, nSampleRate, bBypass, bSync>>

(***************************************************************************)
(* Program constants                                                       *)
(***************************************************************************)
MAX_ORDER == 100

DFL_LOWER_FREQUENCY == 1

DFL_UPPER_FREQUENCY == 200000

BUF_LIM_SIZE == 256

SIZE_MAX == 1073741823

STLT_SLOPE_UNITS == {"NEPER_PER_NEPER", "DB_PER_OCTAVE", "DB_PER_DECADE", "NONE"}

STLT_NORMS == {"NONE", "AT_DC", "AT_NYQUIST", "AUTO"}

Min(a, b) == IF a < b THEN a ELSE b

(***************************************************************************)
(* Floats                                                                  *)
(***************************************************************************)
Flt(n) == [sub |-> FALSE, n |-> n]

Subnormal(n) == [sub |-> TRUE, n |-> n]

Abs(n) == IF n < 0 THEN -n ELSE n

\* n * num / den rounded to the nearest integer, ties to even (the default
\* IEEE-754 rounding of a product that lands in the subnormal range)
RoundNearestEven(n, num, den) ==
    LET a == Abs(n) * num
        q == a \div den
        r == a % den
        m == IF 2 * r > den THEN q + 1
             ELSE IF 2 * r < den THEN q
             ELSE IF q % 2 = 0 THEN q ELSE q + 1
    IN  IF n < 0 THEN -m ELSE m

\* x * (micro / 10^6) in float arithmetic. A normal operand (n tenths) gives
\* the exact product, counted in units of 10^-7, which is non-zero when x is;
\* a subnormal operand is rounded on the subnormal grid.
FMulMicro(x, micro) ==
    IF x.sub THEN Subnormal(RoundNearestEven(x.n, micro, 1000000))
    ELSE Flt(x.n * micro)

FIsZero(x) == x.n = 0

FLeZero(x) == x.n <= 0

(***************************************************************************)
(* The filter bank sFilter (dspu::FilterBank): init / begin / add_chain /   *)
(* end / process.  A section is the pair of first-order elements it was    *)
(* combined from; its delay memory is one value per section.               *)
(***************************************************************************)
SampleMod == 3

FilterBank_init(filters) ==
    [nMaxItems |-> filters, nItems |-> 0, chain |-> <<>>, open |-> FALSE, mem |-> <<>>]

FilterBank_begin(fb) ==
    [fb EXCEPT !.nItems = 0, !.chain = <<>>, !.open = TRUE]

\* add_chain() returns NULL when no slot is left
FilterBank_add_chain_is_null(fb) == fb.nItems >= fb.nMaxItems

FilterBank_add_chain(fb, section) ==
    [fb EXCEPT !.nItems = @ + 1, !.chain = Append(@, section)]

FilterBank_end(fb) ==
    [fb EXCEPT !.open = FALSE, !.mem = [i \in 1..fb.nItems |-> 0]]

\* One sample through the sections i, i + 1, ... of the bank: each section
\* adds its delay memory to its input and keeps the result as its memory.
RECURSIVE Cascade(_, _, _)
Cascade(mem, i, x) ==
    IF i > Len(mem) THEN [mem |-> mem, y |-> x]
    ELSE LET y == (x + mem[i]) % SampleMod
         IN  Cascade([mem EXCEPT ![i] = y], i + 1, y)

\* The samples src[lo], ..., src[hi - 1] through the bank, in this order, on
\* st = [mem, out] (split in halves to keep the evaluation shallow).
RECURSIVE ProcessRange(_, _, _, _)
ProcessRange(st, src, lo, hi) ==
    IF lo >= hi THEN st
    ELSE IF hi = lo + 1
         THEN LET r == Cascade(st.mem, 1, src[lo])
              IN  [mem |-> r.mem, out |-> Append(st.out, r.y)]
    ELSE LET mid  == (lo + hi) \div 2
             left == ProcessRange(st, src, lo, mid)
         IN  IF Len(left.out) >= 0 THEN ProcessRange(left, src, mid, hi) ELSE left

\* process(dst, src, count): the output samples and the bank with its delay
\* memory advanced
FilterBank_process(fb, src, count) ==
    LET r == ProcessRange([mem |-> fb.mem, out |-> <<>>], src, 1, count + 1)
    IN  [fb |-> [fb EXCEPT !.mem = r.mem], out |-> r.out]

(***************************************************************************)
(* dsp:: buffer primitives on the first count elements at an offset        *)
(***************************************************************************)
InRange(i, offset, count) == offset < i /\ i <= offset + count

dsp_fill_zero(buf, offset, count) ==
    [i \in 1..Len(buf) |-> IF InRange(i, offset, count) THEN 0 ELSE buf[i]]

dsp_copy(buf, offset, src, count) ==
    [i \in 1..Len(buf) |-> IF InRange(i, offset, count) THEN src[i - offset] ELSE buf[i]]

dsp_add2(buf, offset, src, count) ==
    [i \in 1..Len(buf) |->
        IF InRange(i, offset, count) THEN buf[i] + src[i - offset] ELSE buf[i]]

dsp_mul2(buf, offset, src, count) ==
    [i \in 1..Len(buf) |->
        IF InRange(i, offset, count) THEN buf[i] * src[i - offset] ELSE buf[i]]

Slice(buf, offset, count) == SubSeq(buf, offset + 1, offset + count)

(***************************************************************************)
(* process_add / process_mul / process_overwrite                           *)
(* src is [null, v]; the result is the bank, the destination buffer and    *)
(* the calls of sFilter.process: their sizes (chunks), the samples given   *)
(* (fed) and returned (out), in order.                                     *)
(***************************************************************************)
NoCall(fb, buf) == [fb |-> fb, dst |-> buf, chunks |-> <<>>, fed |-> <<>>, out |-> <<>>]

\* size_t to_do = lsp_min(count - offset, BUF_LIM_SIZE);
ChunkSize(count, offset) == Min(count - offset, BUF_LIM_SIZE)

\* a slip: every chunk is read from the start of src, not from &src[offset]
RECURSIVE process_add_loop_NoOffset(_, _, _, _)
process_add_loop_NoOffset(st, src, count, offset) ==
    IF ~(offset < count) THEN st
    ELSE LET to_do == ChunkSize(count, offset)
             given == Slice(src, 0, to_do)
             r     == FilterBank_process(st.fb, given, to_do)
         IN  process_add_loop_NoOffset(
                 [fb |-> r.fb,
                  dst |-> dsp_add2(st.dst, offset, r.out, to_do),
                  chunks |-> Append(st.chunks, to_do),
                  fed |-> st.fed \o given,
                  out |-> st.out \o r.out],
                 src, count, offset + to_do)

\* for (size_t offset=0; offset < count; ) { ... } of process_add
RECURSIVE process_add_loop(_, _, _, _)
process_add_loop(st, src, count, offset) ==
    IF ~(offset < count) THEN st
    ELSE LET to_do == ChunkSize(count, offset)
             given == Slice(src, offset, to_do)
             r     == FilterBank_process(st.fb, given, to_do)
         IN  process_add_loop(
                 [fb |-> r.fb,
                  dst |-> dsp_add2(st.dst, offset, r.out, to_do),
                  chunks |-> Append(st.chunks, to_do),
                  fed |-> st.fed \o given,
                  out |-> st.out \o r.out],
                 src, count, offset + to_do)

\* for (size_t offset=0; offset < count; ) { ... } of process_mul
RECURSIVE process_mul_loop(_, _, _, _)
process_mul_loop(st, src, count, offset) ==
    IF ~(offset < count) THEN st
    ELSE LET to_do == ChunkSize(count, offset)
             given == Slice(src, offset, to_do)
             r     == FilterBank_process(st.fb, given, to_do)
         IN  process_mul_loop(
                 [fb |-> r.fb,
                  dst |-> dsp_mul2(st.dst, offset, r.out, to_do),
                  chunks |-> Append(st.chunks, to_do),
                  fed |-> st.fed \o given,
                  out |-> st.out \o r.out],
                 src, count, offset + to_do)

\* a slip: the bypass test is left out of process_add
process_add_NoBypass(fb, bypass, buf, src, count) ==
    IF src.null THEN NoCall(fb, buf)
    ELSE process_add_loop(NoCall(fb, buf), src.v, count, 0)

process_add(fb, bypass, buf, src, count) ==
    IF src.null THEN NoCall(fb, buf)
    ELSE IF bypass THEN NoCall(fb, dsp_add2(buf, 0, src.v, count))
    ELSE process_add_loop(NoCall(fb, buf), src.v, count, 0)

\* a slip: a NULL src is taken for "nothing to do", as in process_add
process_mul_NullNoop(fb, bypass, buf, src, count) ==
    IF src.null THEN NoCall(fb, buf)
    ELSE IF bypass THEN NoCall(fb, dsp_mul2(buf, 0, src.v, count))
    ELSE process_mul_loop(NoCall(fb, buf), src.v, count, 0)

process_mul(fb, bypass, buf, src, count) ==
    IF src.null THEN NoCall(fb, dsp_fill_zero(buf, 0, count))
    ELSE IF bypass THEN NoCall(fb, dsp_mul2(buf, 0, src.v, count))
    ELSE process_mul_loop(NoCall(fb, buf), src.v, count, 0)

process_overwrite(fb, bypass, buf, src, count) ==
    IF src.null THEN NoCall(fb, dsp_fill_zero(buf, 0, count))
    ELSE IF bypass THEN NoCall(fb, dsp_copy(buf, 0, src.v, count))
    ELSE LET r == FilterBank_process(fb, src.v, count)
         IN  [fb |-> r.fb, dst |-> dsp_copy(buf, 0, r.out, count),
              chunks |-> <<count>>, fed |-> Slice(src.v, 0, count), out |-> r.out]

(***************************************************************************)
(* update_settings()                                                       *)
(***************************************************************************)
\* a slip: the odd order is rounded down instead of up
ForceEvenOrder_RoundDown(order) ==
    IF order % 2 = 0 THEN order ELSE order - 1

\* nOrder = (nOrder % 2 == 0) ? nOrder : nOrder + 1;   (size_t arithmetic)
ForceEvenOrder(order) ==
    IF order % 2 = 0 THEN order ELSE (order + 1) % (SIZE_MAX + 1)

\* nOrder = lsp_min(nOrder, MAX_ORDER);
ClampOrder(order) == Min(order, MAX_ORDER)

\* switch (enSlopeUnit) { ... }
SlopeNepNep(unit, val) ==
    CASE unit = "DB_PER_OCTAVE" -> FMulMicro(val, 166096)
      [] unit = "DB_PER_DECADE" -> FMulMicro(val, 50000)
      [] OTHER                  -> FMulMicro(val, 1000000)

\* a slip: < for <=, so that a zero slope resolves to AT_NYQUIST
ResolveNorm_Strict(norm, nepnep) ==
    IF norm = "AUTO"
    THEN (IF nepnep.n < 0 THEN "AT_DC" ELSE "AT_NYQUIST")
    ELSE norm

\* if (enNorm == STLT_NORM_AUTO) enNorm = (fSlopeNepNep <= 0) ? AT_DC : AT_NYQUIST;
ResolveNorm(norm, nepnep) ==
    IF norm = "AUTO"
    THEN (IF FLeZero(nepnep) THEN "AT_DC" ELSE "AT_NYQUIST")
    ELSE norm

\* a slip: > for >=, so that a frequency equal to half the rate is kept
AtOrAboveHalfRate_Strict(freq, rate) == freq > 5 * rate

\* fLowerFrequency >= 0.5f * nSampleRate, in tenths of Hz
AtOrAboveHalfRate(freq, rate) == freq >= 5 * rate

FixLower(lower, rate) ==
    IF AtOrAboveHalfRate(lower, rate) THEN DFL_LOWER_FREQUENCY ELSE lower

FixUpper(upper, rate) ==
    IF AtOrAboveHalfRate(upper, rate) THEN DFL_UPPER_FREQUENCY ELSE upper

\* if (fLowerFrequency >= fUpperFrequency) { both defaults }
FixBand(lower, upper) ==
    IF lower >= upper
    THEN [lower |-> DFL_LOWER_FREQUENCY, upper |-> DFL_UPPER_FREQUENCY]
    ELSE [lower |-> lower, upper |-> upper]

\* (enSlopeUnit == STLT_SLOPE_UNIT_NONE) || (fSlopeNepNep == 0.0f)
BypassCondition(unit, nepnep) == (unit = "NONE") \/ FIsZero(nepnep)

\* compute_bilinear_element(negZero, negPole): the zero and the pole are
\* l_angf * r^(negZero - slope) and l_angf * r^negPole; g_a is kept as the
\* name of the gain rule the switch on enNorm selects.
compute_bilinear_element(negZero, negPole, norm) ==
    [b0 |-> negZero, a0 |-> negPole,
     g_a |-> CASE norm = "NONE"       -> "unity"
               [] norm = "AT_NYQUIST" -> "nyquist"
               [] OTHER               -> "dc"]

\* a slip: the odd indices are not skipped, one section per first-order element
SectionBody_NoSkip(st, n, norm) ==
    IF st.returned THEN st
    ELSE LET spec_now == compute_bilinear_element(st.negZero, st.negPole, norm)
             spec_nxt == compute_bilinear_element(st.negZero + 1, st.negPole + 1, norm)
         IN  IF FilterBank_add_chain_is_null(st.fb)
             THEN [st EXCEPT !.returned = TRUE]
             ELSE [fb |-> FilterBank_add_chain(st.fb, [now |-> spec_now, nxt |-> spec_nxt]),
                   negZero |-> st.negZero + 2, negPole |-> st.negPole + 2,
                   returned |-> FALSE]

\* The body of  for (size_t n = 0; n < nOrder; ++n) { ... }  on the loop state
\* st = [fb, negZero, negPole, returned]: negZero and negPole count the
\* multiplications by r so far, returned tells that the function was left by
\* the return on NULL.
SectionBody(st, n, norm) ==
    IF st.returned THEN st
    ELSE IF n % 2 # 0 THEN st
    ELSE LET spec_now == compute_bilinear_element(st.negZero, st.negPole, norm)
             spec_nxt == compute_bilinear_element(st.negZero + 1, st.negPole + 1, norm)
         IN  IF FilterBank_add_chain_is_null(st.fb)
             THEN [st EXCEPT !.returned = TRUE]
             ELSE [fb |-> FilterBank_add_chain(st.fb, [now |-> spec_now, nxt |-> spec_nxt]),
                   negZero |-> st.negZero + 2, negPole |-> st.negPole + 2,
                   returned |-> FALSE]

\* The iterations n = lo, lo + 1, ..., hi - 1 of the loop, in this order
\* (split in halves to keep the evaluation shallow).
RECURSIVE SectionLoop(_, _, _, _)
SectionLoop(st, lo, hi, norm) ==
    IF lo >= hi THEN st
    ELSE IF hi = lo + 1 THEN SectionBody(st, lo, norm)
    ELSE LET mid  == (lo + hi) \div 2
             left == SectionLoop(st, lo, mid, norm)
         IN  IF left.returned THEN left ELSE SectionLoop(left, mid, hi, norm)

\* a slip: begin() is left out, the sections are added to the ones in the bank
RebuildChain_NoBegin(fb, order, norm) ==
    LET r == SectionLoop([fb |-> fb, negZero |-> 0, negPole |-> 0,
                          returned |-> FALSE], 0, order, norm)
    IN  [fb |-> IF r.returned THEN r.fb ELSE FilterBank_end(r.fb), done |-> ~r.returned]

\* sFilter.begin(); loop; sFilter.end(true);
RebuildChain(fb, order, norm) ==
    LET r == SectionLoop([fb |-> FilterBank_begin(fb), negZero |-> 0, negPole |-> 0,
                          returned |-> FALSE], 0, order, norm)
    IN  [fb |-> IF r.returned THEN r.fb ELSE FilterBank_end(r.fb), done |-> ~r.returned]

Snapshot ==
    [nOrder |-> nOrder, enSlopeUnit |-> enSlopeUnit, enNorm |-> enNorm,
     fSlopeVal |-> fSlopeVal, fSlopeNepNep |-> fSlopeNepNep,
     fLowerFrequency |-> fLowerFrequency, fUpperFrequency |-> fUpperFrequency,
     nSampleRate |-> nSampleRate, bBypass |-> bBypass, bSync |-> bSync,
     sFilter |-> sFilter]

NoStream == [pos |-> 0, fed |-> <<>>, out |-> <<>>]

NullSrc == [null |-> TRUE, v |-> <<>>]

Src(v) == [null |-> FALSE, v |-> v]

\* prevOp is kept for update_settings alone
Op(name) ==
    [op |-> name, prevOp |-> IF name = "sync" THEN last.op ELSE "none",
     pre |-> Snapshot, src |-> NullSrc, count |-> 0, dst0 |-> <<>>, chunks |-> <<>>]

update_settings ==
    IF ~bSync
    THEN /\ UNCHANGED <<cfgvars, sFilter, dst, stream>>
         /\ last' = Op("sync")
    ELSE LET order  == ClampOrder(ForceEvenOrder(nOrder))
             nepnep == SlopeNepNep(enSlopeUnit, fSlopeVal)
             norm   == ResolveNorm(enNorm, nepnep)
             band   == FixBand(FixLower(fLowerFrequency, nSampleRate),
                               FixUpper(fUpperFrequency, nSampleRate))
             built  == RebuildChain(sFilter, order, norm)
         IN  /\ nOrder' = order
             /\ fSlopeNepNep' = nepnep
             /\ enNorm' = norm
             /\ fLowerFrequency' = band.lower
             /\ fUpperFrequency' = band.upper
             /\ UNCHANGED <<enSlopeUnit, fSlopeVal, nSampleRate, dst>>
             /\ IF BypassCondition(enSlopeUnit, nepnep)
                THEN /\ bBypass' = TRUE
                     /\ bSync' = TRUE
                     /\ UNCHANGED <<sFilter, stream>>
                ELSE /\ bBypass' = FALSE
                     /\ sFilter' = built.fb
                     /\ stream' = NoStream
                     \* return on NULL: bSync is not written
                     /\ bSync' = (IF built.done THEN TRUE ELSE bSync)
             /\ last' = Op("sync")

(***************************************************************************)
(* construct()                                                             *)
(***************************************************************************)
\* a slip: the bank is sized for a quarter of the order
construct_filters_Quarter == MAX_ORDER \div 4

\* sFilter.init(MAX_ORDER)
construct_filters == MAX_ORDER

construct ==
    /\ nOrder = 1
    /\ enSlopeUnit = "NEPER_PER_NEPER"
    /\ enNorm = "AUTO"
    /\ fSlopeVal = Flt(5)
    /\ fSlopeNepNep = Flt(5000000)
    /\ fLowerFrequency = DFL_LOWER_FREQUENCY
    /\ fUpperFrequency = DFL_UPPER_FREQUENCY
    /\ nSampleRate = -1
    /\ bBypass = FALSE
    /\ bSync = TRUE
    /\ sFilter = FilterBank_init(construct_filters)

NoPre ==
    [nOrder |-> 1, enSlopeUnit |-> "NEPER_PER_NEPER", enNorm |-> "AUTO",
     fSlopeVal |-> Flt(5), fSlopeNepNep |-> Flt(5000000),
     fLowerFrequency |-> DFL_LOWER_FREQUENCY, fUpperFrequency |-> DFL_UPPER_FREQUENCY,
     nSampleRate |-> -1, bBypass |-> FALSE, bSync |-> TRUE,
     sFilter |-> FilterBank_init(MAX_ORDER)]

Init ==
    /\ construct
    /\ dst = <<>>
    /\ stream = NoStream
    /\ last = [op |-> "construct", prevOp |-> "none", pre |-> NoPre, src |-> NullSrc,
               count |-> 0, dst0 |-> <<>>, chunks |-> <<>>]

(***************************************************************************)
(* Configuration setters: each stores its argument and sets bSync.         *)
(***************************************************************************)
Mutated == [op |-> "set", prevOp |-> "none", pre |-> NoPre, src |-> NullSrc,
            count |-> 0, dst0 |-> <<>>, chunks |-> <<>>]

set_order(order) ==
    /\ nOrder' = order
    /\ bSync' = TRUE
    /\ last' = Mutated
    /\ UNCHANGED <<enSlopeUnit, enNorm, fSlopeVal, fSlopeNepNep, fLowerFrequency,
                   fUpperFrequency, nSampleRate, bBypass, sFilter, dst, stream>>

set_slope(val, unit) ==
    /\ fSlopeVal' = val
    /\ enSlopeUnit' = unit
    /\ bSync' = TRUE
    /\ last' = Mutated
    /\ UNCHANGED <<nOrder, enNorm, fSlopeNepNep, fLowerFrequency,
                   fUpperFrequency, nSampleRate, bBypass, sFilter, dst, stream>>

set_norm(norm) ==
    /\ enNorm' = norm
    /\ bSync' = TRUE
    /\ last' = Mutated
    /\ UNCHANGED <<nOrder, enSlopeUnit, fSlopeVal, fSlopeNepNep, fLowerFrequency,
                   fUpperFrequency, nSampleRate, bBypass, sFilter, dst, stream>>

set_lower_frequency(f) ==
    /\ fLowerFrequency' = f
    /\ bSync' = TRUE
    /\ last' = Mutated
    /\ UNCHANGED <<nOrder, enSlopeUnit, enNorm, fSlopeVal, fSlopeNepNep,
                   fUpperFrequency, nSampleRate, bBypass, sFilter, dst, stream>>

set_upper_frequency(f) ==
    /\ fUpperFrequency' = f
    /\ bSync' = TRUE
    /\ last' = Mutated
    /\ UNCHANGED <<nOrder, enSlopeUnit, enNorm, fSlopeVal, fSlopeNepNep,
                   fLowerFrequency, nSampleRate, bBypass, sFilter, dst, stream>>

set_sample_rate(sr) ==
    /\ nSampleRate' = sr
    /\ bSync' = TRUE
    /\ last' = Mutated
    /\ UNCHANGED <<nOrder, enSlopeUnit, enNorm, fSlopeVal, fSlopeNepNep,
                   fLowerFrequency, fUpperFrequency, bBypass, sFilter, dst, stream>>

(***************************************************************************)
(* Spec: order, slope, normalisation and sample rate, with update_settings *)
(***************************************************************************)
Orders == {3, 4, 101, SIZE_MAX}

SlopeSettings ==
    {<<Flt(60), "DB_PER_OCTAVE">>, <<Flt(-60), "DB_PER_DECADE">>,
     <<Flt(0), "NEPER_PER_NEPER">>, <<Flt(60), "NONE">>,
     <<Subnormal(1), "DB_PER_OCTAVE">>, <<Subnormal(1), "NEPER_PER_NEPER">>,
     <<Subnormal(-11), "DB_PER_DECADE">>}

SampleRates == {44100}

SetOrder == \E order \in Orders : set_order(order)

SetSlope == \E s \in SlopeSettings : set_slope(s[1], s[2])

SetNorm == \E norm \in STLT_NORMS : set_norm(norm)

SetSampleRate == \E sr \in SampleRates : set_sample_rate(sr)

Synchronize == update_settings

Next ==
    \/ SetOrder
    \/ SetSlope
    \/ SetNorm
    \/ SetSampleRate
    \/ Synchronize

Spec == Init /\ [][Next]_vars

(***************************************************************************)
(* Properties of update_settings under Spec                                *)
(***************************************************************************)
Synced == last.op = "sync" /\ last.pre.bSync

\* C1: after an update_settings() that is not skipped the stored order is even
\* and at most 100; an odd request is the request plus one (in size_t
\* arithmetic) clamped to 100, an even one is the request clamped to 100: 3
\* gives 4 and 101 gives 100.
C1_EffectiveOrder ==
    Synced =>
        LET req == last.pre.nOrder
        IN  /\ nOrder % 2 = 0
            /\ nOrder <= 100
            /\ (req = 3 => nOrder = 4)
            /\ (req = 101 => nOrder = 100)
            /\ (req % 2 = 0 /\ req <= 100 => nOrder = req)
            /\ (req % 2 = 1 /\ req < 100 => nOrder = req + 1)
            /\ (req > 100 /\ req < SIZE_MAX => nOrder = 100)

C1_Witness ==
    /\ Synced
    /\ last.pre.nOrder = 101
    /\ nOrder = 100

\* The sections are in pair order: section i was combined from the elements
\* 2(i-1) and 2(i-1)+1 of the pole/zero ladder.
InPairOrder(chain) ==
    \A i \in 1..Len(chain) :
        /\ chain[i].now.a0 = 2 * (i - 1) /\ chain[i].now.b0 = 2 * (i - 1)
        /\ chain[i].nxt.a0 = 2 * (i - 1) + 1 /\ chain[i].nxt.b0 = 2 * (i - 1) + 1

ChainMatchesOrder ==
    /\ sFilter.nItems = nOrder \div 2
    /\ Len(sFilter.chain) = nOrder \div 2
    /\ InPairOrder(sFilter.chain)

DefaultAt44100 == last.pre = [NoPre EXCEPT !.nSampleRate = 44100]

\* C2 as stated: whenever update_settings() ends with bBypass = FALSE the bank
\* holds nOrder/2 sections in pair order; a default-constructed instance at
\* 44100 Hz gives bBypass = FALSE, nOrder = 2 and one section; order 4 with
\* any non-zero dB/octave slope value gives a 2-section chain.
C2_AsStated ==
    Synced =>
        /\ (~bBypass => ChainMatchesOrder)
        /\ (DefaultAt44100 => ~bBypass /\ nOrder = 2 /\ sFilter.nItems = 1)
        /\ (/\ last.pre.nOrder = 4
            /\ enSlopeUnit = "DB_PER_OCTAVE"
            /\ fSlopeVal.n # 0
            => ~bBypass /\ sFilter.nItems = 2)

\* C2 as amended: the same, where the dB/octave slope is one whose converted
\* Neper-per-Neper slope is non-zero (a non-zero value whose product with
\* 0.166... underflows to zero gives bBypass = TRUE and no rebuild).
C2_SectionCount ==
    Synced =>
        /\ (~bBypass => ChainMatchesOrder)
        /\ (DefaultAt44100 => ~bBypass /\ nOrder = 2 /\ sFilter.nItems = 1)
        /\ (/\ last.pre.nOrder = 4
            /\ enSlopeUnit = "DB_PER_OCTAVE"
            /\ fSlopeNepNep.n # 0
            => ~bBypass /\ sFilter.nItems = 2)
        /\ (/\ enSlopeUnit = "DB_PER_OCTAVE"
            /\ fSlopeVal.n # 0
            /\ fSlopeNepNep.n = 0
            => bBypass /\ sFilter = last.pre.sFilter)

C2_Witness ==
    /\ Synced
    /\ last.pre.nOrder = 4
    /\ enSlopeUnit = "DB_PER_OCTAVE"
    /\ fSlopeVal = Flt(60)
    /\ ~bBypass
    /\ sFilter.nItems = 2
    /\ Len(sFilter.chain) = 2

\* C7: an update_settings() that finds enNorm = AUTO stores AT_DC when the
\* Neper-per-Neper slope is <= 0 and AT_NYQUIST otherwise, on the bypass path
\* too; after update_settings() enNorm is never AUTO, and a mode other than
\* AUTO is left as it was, whatever the slope.
C7_AutoNorm ==
    Synced =>
        /\ enNorm # "AUTO"
        /\ (last.pre.enNorm = "AUTO" /\ fSlopeNepNep.n <= 0 => enNorm = "AT_DC")
        /\ (last.pre.enNorm = "AUTO" /\ fSlopeNepNep.n > 0 => enNorm = "AT_NYQUIST")
        /\ (last.pre.enNorm # "AUTO" => enNorm = last.pre.enNorm)

\* a mode resolved earlier survives a later update_settings() with the
\* opposite slope sign
C7_Witness ==
    /\ Synced
    /\ last.pre.enNorm = "AT_NYQUIST"
    /\ last.pre.fSlopeNepNep.n > 0
    /\ fSlopeNepNep.n < 0
    /\ enNorm = "AT_NYQUIST"

BandLowerFrequencies == {200, 110250, 220500, 300000}

BandUpperFrequencies == {200, 110250, 220500}

BandSampleRates == {8000, 44100, 96000}

BandSetLowerFrequency == \E f \in BandLowerFrequencies : set_lower_frequency(f)

BandSetUpperFrequency == \E f \in BandUpperFrequencies : set_upper_frequency(f)

BandSetSampleRate == \E sr \in BandSampleRates : set_sample_rate(sr)

NextBand ==
    \/ BandSetLowerFrequency
    \/ BandSetUpperFrequency
    \/ BandSetSampleRate
    \/ Synchronize

SpecBand == Init /\ [][NextBand]_vars

\* C3 as stated: a lower frequency at or above Nyquist/2 = nSampleRate/4 is
\* reset to 0.1 Hz, an upper frequency at or above Nyquist/2 to 20 kHz, and
\* when lower >= upper after these two checks both are reset.
C3_AsStated ==
    Synced =>
        LET sr == nSampleRate
            l0 == last.pre.fLowerFrequency
            u0 == last.pre.fUpperFrequency
            l1 == IF 4 * l0 >= 10 * sr THEN 1 ELSE l0
            u1 == IF 4 * u0 >= 10 * sr THEN 200000 ELSE u0
        IN  /\ (4 * l0 >= 10 * sr => fLowerFrequency = 1)
            /\ (4 * u0 >= 10 * sr => fUpperFrequency = 200000)
            /\ (l1 >= u1 => fLowerFrequency = 1 /\ fUpperFrequency = 200000)

\* C3 as amended: the threshold is Nyquist = nSampleRate/2 itself: a lower
\* frequency at or above it is reset to 0.1 Hz, an upper frequency at or above
\* it to 20 kHz, when lower >= upper after these two checks both are reset,
\* and otherwise both are kept.
C3_BandCorrection ==
    Synced =>
        LET sr == nSampleRate
            l0 == last.pre.fLowerFrequency
            u0 == last.pre.fUpperFrequency
            l1 == IF 2 * l0 >= 10 * sr THEN 1 ELSE l0
            u1 == IF 2 * u0 >= 10 * sr THEN 200000 ELSE u0
        IN  /\ (2 * l0 >= 10 * sr => fLowerFrequency = 1)
            /\ (2 * u0 >= 10 * sr => fUpperFrequency = 200000)
            /\ (l1 >= u1 => fLowerFrequency = 1 /\ fUpperFrequency = 200000)
            /\ (l1 < u1 => fLowerFrequency = l1 /\ fUpperFrequency = u1)

\* lower = Nyquist exactly is reset, and so is an upper frequency below it
\* that the corrected lower is not below
C3_Witness ==
    /\ Synced
    /\ nSampleRate = 44100
    /\ last.pre.fLowerFrequency = 220500
    /\ last.pre.fUpperFrequency = 110250
    /\ fLowerFrequency = 1
    /\ fUpperFrequency = 110250

(***************************************************************************)
(* SpecAll: every setter, with update_settings                             *)
(***************************************************************************)
AllOrders == {3, 101}

AllSlopeSettings == {<<Flt(60), "DB_PER_OCTAVE">>, <<Flt(0), "NEPER_PER_NEPER">>}

AllNorms == {"AUTO", "NONE"}

AllLowerFrequencies == {220500}

AllUpperFrequencies == {200}

AllSampleRates == {44100}

AllSetOrder == \E order \in AllOrders : set_order(order)

AllSetSlope == \E s \in AllSlopeSettings : set_slope(s[1], s[2])

AllSetNorm == \E norm \in AllNorms : set_norm(norm)

AllSetLowerFrequency == \E f \in AllLowerFrequencies : set_lower_frequency(f)

AllSetUpperFrequency == \E f \in AllUpperFrequencies : set_upper_frequency(f)

AllSetSampleRate == \E sr \in AllSampleRates : set_sample_rate(sr)

NextAll ==
    \/ AllSetOrder
    \/ AllSetSlope
    \/ AllSetNorm
    \/ AllSetLowerFrequency
    \/ AllSetUpperFrequency
    \/ AllSetSampleRate
    \/ Synchronize

SpecAll == Init /\ [][NextAll]_vars

\* C8: an update_settings() that directly follows an update_settings() leaves
\* the order, the slope unit and value, the Neper-per-Neper slope, the
\* normalisation mode, both frequencies, bBypass, bSync and the sections of
\* the bank as the first call left them.
C8_Idempotent ==
    (last.op = "sync" /\ last.prevOp = "sync") =>
        /\ nOrder = last.pre.nOrder
        /\ enSlopeUnit = last.pre.enSlopeUnit
        /\ fSlopeVal = last.pre.fSlopeVal
        /\ fSlopeNepNep = last.pre.fSlopeNepNep
        /\ enNorm = last.pre.enNorm
        /\ fLowerFrequency = last.pre.fLowerFrequency
        /\ fUpperFrequency = last.pre.fUpperFrequency
        /\ bBypass = last.pre.bBypass
        /\ bSync = last.pre.bSync
        /\ sFilter.nItems = last.pre.sFilter.nItems
        /\ sFilter.chain = last.pre.sFilter.chain

C8_Witness ==
    /\ last.op = "sync"
    /\ last.prevOp = "sync"
    /\ ~bBypass
    /\ nOrder = 100
    /\ sFilter.nItems = 50
    /\ fLowerFrequency = 1
    /\ enNorm = "AT_NYQUIST"

\* C9: update_settings() clears the flag, so that the flag is clear after any
\* completed update_settings(); an update_settings() called with the flag clear
\* changes nothing; the bank is rebuilt only when the flag was set.
C9_FlagConsumed ==
    last.op = "sync" =>
        /\ ~bSync
        /\ (~last.pre.bSync => Snapshot = last.pre)
        /\ (sFilter # last.pre.sFilter => last.pre.bSync)

(***************************************************************************)
(* SpecProc: the streaming calls on short buffers, bypassed or not, with   *)
(* src present or NULL                                                     *)
(***************************************************************************)
BufLen == 2

ProcSlopeSettings ==
    {<<Flt(60), "DB_PER_OCTAVE">>, <<Flt(60), "NONE">>, <<Flt(0), "DB_PER_DECADE">>}

ProcSources ==
    {NullSrc,
     Src([i \in 1..BufLen |-> 1]),
     Src([i \in 1..BufLen |-> i % 2]),
     Src([i \in 1..BufLen |-> 2 + (i % 2)])}

ProcDestinations == {[i \in 1..BufLen |-> i + 1], [i \in 1..BufLen |-> 0]}

Called(name, src, buf, count, r) ==
    /\ sFilter' = r.fb
    /\ dst' = r.dst
    /\ last' = [Op(name) EXCEPT !.src = src, !.count = count, !.dst0 = buf,
                                !.chunks = r.chunks]
    /\ UNCHANGED cfgvars

ProcSetSlope ==
    \E s \in ProcSlopeSettings : set_slope(s[1], s[2])

ProcessAdd ==
    \E src \in ProcSources, buf \in ProcDestinations, count \in 0..BufLen :
        /\ Called("add", src, buf, count, process_add(sFilter, bBypass, buf, src, count))
        /\ UNCHANGED stream

ProcessMul ==
    \E src \in ProcSources, buf \in ProcDestinations, count \in 0..BufLen :
        /\ Called("mul", src, buf, count, process_mul(sFilter, bBypass, buf, src, count))
        /\ UNCHANGED stream

ProcessOverwrite ==
    \E src \in ProcSources, buf \in ProcDestinations, count \in 0..BufLen :
        /\ Called("overwrite", src, buf, count,
                  process_overwrite(sFilter, bBypass, buf, src, count))
        /\ UNCHANGED stream

NextProc ==
    \/ ProcSetSlope
    \/ Synchronize
    \/ ProcessAdd
    \/ ProcessMul
    \/ ProcessOverwrite

SpecProc == Init /\ [][NextProc]_vars

Streamed == last.op \in {"add", "mul", "overwrite"}

\* dst is dst0 with its first count elements replaced by f(i)
FirstCount(f(_)) ==
    /\ Len(dst) = Len(last.dst0)
    /\ \A i \in 1..Len(dst) :
           dst[i] = IF i <= last.count THEN f(i) ELSE last.dst0[i]

ChainUntouched ==
    /\ last.chunks = <<>>
    /\ sFilter = last.pre.sFilter

\* C4: an update_settings() with the unit NONE or a zero Neper-per-Neper slope
\* sets bBypass and leaves the bank as it was; while bBypass is set a
\* streaming call with src present never calls sFilter.process: overwrite
\* gives dst[i] = src[i], add gives dst[i] = old dst[i] + src[i], mul gives
\* dst[i] = old dst[i] * src[i], for the first count elements.
C4_BypassIdentity ==
    /\ (Synced /\ (enSlopeUnit = "NONE" \/ fSlopeNepNep.n = 0)
            => bBypass /\ sFilter = last.pre.sFilter)
    /\ (Streamed => bBypass = last.pre.bBypass)
    /\ (Streamed /\ last.pre.bBypass /\ ~last.src.null =>
            /\ ChainUntouched
            /\ (last.op = "overwrite" =>
                    LET f(i) == last.src.v[i] IN FirstCount(f))
            /\ (last.op = "add" =>
                    LET f(i) == last.dst0[i] + last.src.v[i] IN FirstCount(f))
            /\ (last.op = "mul" =>
                    LET f(i) == last.dst0[i] * last.src.v[i] IN FirstCount(f)))

\* a bypassed add over a bank that holds a section with non-zero memory
C4_Witness ==
    /\ last.op = "add"
    /\ last.pre.bBypass
    /\ enSlopeUnit = "NONE"
    /\ last.src = Src([i \in 1..BufLen |-> 1])
    /\ last.count = BufLen
    /\ last.dst0 = [i \in 1..BufLen |-> i + 1]
    /\ dst = [i \in 1..BufLen |-> i + 2]
    /\ sFilter.nItems = 1
    /\ sFilter.mem # <<0>>

\* C5: with src NULL, whatever bBypass and whether update_settings() has run,
\* add leaves dst as it was, mul and overwrite set the first count elements
\* to 0, and none of them calls sFilter.process: the bank and its delay
\* memory are unchanged.
C5_AbsentSource ==
    (Streamed /\ last.src.null) =>
        /\ ChainUntouched
        /\ (last.op = "add" => dst = last.dst0)
        /\ (last.op \in {"mul", "overwrite"} =>
                LET f(i) == 0 IN FirstCount(f))

\* a mul with src NULL, not bypassed, over a section with non-zero memory
C5_Witness ==
    /\ last.op = "mul"
    /\ last.src.null
    /\ ~last.pre.bBypass
    /\ last.count = 1
    /\ last.dst0 = [i \in 1..BufLen |-> i + 1]
    /\ dst = [i \in 1..BufLen |-> IF i = 1 THEN 0 ELSE i + 1]
    /\ sFilter.nItems = 1
    /\ sFilter.mem # <<0>>

(***************************************************************************)
(* SpecStream: one input stream given to the streaming calls in            *)
(* consecutive pieces                                                      *)
(***************************************************************************)
StreamLen == 600

CallCounts == {64, 256, 257, 513}

StreamOrders == {4}

InputStream == [i \in 1..StreamLen |-> (i * i + (i \div 7)) % SampleMod]

StreamDestination(count) == [i \in 1..count |-> 1 + (i % 2)]

StreamCalled(name, count, buf, r) ==
    /\ Called(name, NullSrc, buf, count, r)
    /\ stream' = [pos |-> stream.pos + count,
                  fed |-> stream.fed \o r.fed,
                  out |-> stream.out \o r.out]

\* the configuration is fixed once the stream has begun
StreamSetOrder ==
    /\ stream.pos = 0
    /\ \E order \in StreamOrders : set_order(order)

StreamSynchronize ==
    /\ stream.pos = 0
    /\ update_settings

StreamAdd ==
    \E count \in CallCounts :
        /\ stream.pos + count <= StreamLen
        /\ LET buf == StreamDestination(count)
               src == Src(Slice(InputStream, stream.pos, count))
           IN  StreamCalled("add", count, buf,
                            process_add(sFilter, bBypass, buf, src, count))

StreamMul ==
    \E count \in CallCounts :
        /\ stream.pos + count <= StreamLen
        /\ LET buf == StreamDestination(count)
               src == Src(Slice(InputStream, stream.pos, count))
           IN  StreamCalled("mul", count, buf,
                            process_mul(sFilter, bBypass, buf, src, count))

StreamOverwrite ==
    \E count \in CallCounts :
        /\ stream.pos + count <= StreamLen
        /\ LET buf == StreamDestination(count)
               src == Src(Slice(InputStream, stream.pos, count))
           IN  StreamCalled("overwrite", count, buf,
                            process_overwrite(sFilter, bBypass, buf, src, count))

NextStream ==
    \/ StreamSetOrder
    \/ StreamSynchronize
    \/ StreamAdd
    \/ StreamMul
    \/ StreamOverwrite

SpecStream == Init /\ [][NextStream]_vars

RECURSIVE SumSeq(_, _)
SumSeq(q, i) == IF i > Len(q) THEN 0 ELSE q[i] + SumSeq(q, i + 1)

\* the whole stream so far through the freshly rebuilt bank in one call
OneCall ==
    FilterBank_process([sFilter EXCEPT !.mem = [i \in 1..sFilter.nItems |-> 0]],
                       Slice(InputStream, 0, stream.pos), stream.pos)

\* C6: however the input is cut into calls, since the last rebuild the bank
\* was given every input sample once and in order, its outputs and its delay
\* memory are those of one call over the whole input, each call combines
\* these outputs into dst by its rule, and the chunks of a call are of 1 to
\* 256 samples and add up to count.
C6_BlockSizeInvariance ==
    ~bBypass =>
        /\ stream.fed = Slice(InputStream, 0, stream.pos)
        /\ stream.out = OneCall.out
        /\ sFilter.mem = OneCall.fb.mem
        /\ (Streamed =>
                LET y(i) == stream.out[stream.pos - last.count + i]
                    ovr(i) == y(i)
                    add(i) == last.dst0[i] + y(i)
                    mul(i) == last.dst0[i] * y(i)
                IN  /\ SumSeq(last.chunks, 1) = last.count
                    /\ (last.op = "overwrite" => last.chunks = <<last.count>>)
                    /\ (last.op # "overwrite" =>
                            \A k \in 1..Len(last.chunks) :
                                last.chunks[k] >= 1 /\ last.chunks[k] <= 256)
                    /\ (last.op = "overwrite" => FirstCount(ovr))
                    /\ (last.op = "add" => FirstCount(add))
                    /\ (last.op = "mul" => FirstCount(mul)))

\* a 513-sample add in chunks of 256, 256 and 1 after an earlier call, on a
\* two-section bank whose memory is not zero
C6_Witness ==
    /\ ~bBypass
    /\ last.op = "add"
    /\ last.count = 513
    /\ last.chunks = <<256, 256, 1>>
    /\ stream.pos > 513
    /\ sFilter.nItems = 2
    /\ sFilter.mem # <<0, 0>>

====
